---- MODULE Spec2Model ----
(***************************************************************************)
(* Model of the dependency-aware bear scheduler of coalib/core/Core.py:    *)
(* run(), schedule_bears() and finish_task(), together with the            *)
(* DependencyTracker they consult.  All handlers run on the single thread  *)
(* of the asyncio event loop, so every handler is one atomic action.       *)
(***************************************************************************)
EXTENDS Integers, Sequences, FiniteSets, TLC

(* ----------------------------- bounds ---------------------------------- *)
\* most tasks one bear's generate_tasks() yields
MaxTasks == 2
\* most results one task's analyze() returns
MaxResults == 2
\* most tasks generated by all bears of one session together
MaxTotalTasks == 3

(* ----------------------------- bears ----------------------------------- *)
\* the bears a session may be given or may name as a dependency
Bears == {"A", "B", "C", "D"}
\* the bears of the sessions with an arbitrary dependency relation
FreeBears == {"A", "B", "C"}

\* the diamond of the specification's scenario: D -> {B, C} -> A
DiamondDeps == [b \in Bears |->
                  CASE b = "A" -> {}
                    [] b = "B" -> {"A"}
                    [] b = "C" -> {"A"}
                    [] OTHER   -> {"B", "C"}]

VARIABLES
  bears,              \* run(bears, ..): the set of bear instances of the session
  deps,               \* bear -> the bears it declares as dependencies
  ntasks,             \* bear -> number of argument tuples generate_tasks() yields
  pc,                 \* position of run(): start, tracked, loop, done, error
  dependency_dict,    \* dependency_tracker.dependency_dict
  running_tasks,      \* the dict run() passes to schedule_bears
  pending,            \* futures whose done-callback has not run yet
  sink,               \* the values result_callback has been called with, in order
  loop_exceptions,    \* futures whose callback raised into the loop's exception handler
  outcome,            \* future that returned -> the number of results it returned
  stop_calls,         \* number of event_loop.stop() calls
  submitted,          \* bear -> times schedule_bears registered it in running_tasks
  resolved,           \* bear -> times dependency_tracker.resolve(bear) was called
  loop_closed,        \* event_loop.close() has run
  executor_shutdown   \* the ProcessPoolExecutor has been shut down

vars == <<bears, deps, ntasks, pc, dependency_dict, running_tasks, pending, sink,
          loop_exceptions, outcome, stop_calls, submitted, resolved,
          loop_closed, executor_shutdown>>

config == <<bears, deps, ntasks>>

(* ----------------------------- helpers --------------------------------- *)
RECURSIVE SumTasks(_, _)
SumTasks(n, S) ==
  IF S = {} THEN 0
  ELSE LET b == CHOOSE x \in S : TRUE IN n[b] + SumTasks(n, S \ {b})

\* the empty dict
EmptyDict == [b \in {} |-> {}]

\* the futures run_in_executor returns for the tasks bear.generate_tasks() yields
TasksOf(b) == {<<b, i>> : i \in 1..ntasks[b]}

\* a mutant of ResultsOf: the results are forwarded last to first
ResultsOf_reversed(task, n) == [k \in 1..n |-> <<task[1], task[2], n + 1 - k>>]

\* a mutant of ResultsOf: the last result of the task is not forwarded
ResultsOf_droplast(task, n) == [k \in 1..(n - 1) |-> <<task[1], task[2], k>>]

\* the sequence task.result() returns for a task that produced n results
ResultsOf(task, n) == [k \in 1..n |-> <<task[1], task[2], k>>]

(* ------------------------ DependencyTracker ---------------------------- *)
\* bears that can never be peeled off because they lie on or behind a cycle
RECURSIVE Unpeelable(_, _)
Unpeelable(dd, S) ==
  LET free == {b \in S : dd[b] \cap S = {}}
  IN  IF free = {} THEN S ELSE Unpeelable(dd, S \ free)

HasCycle(dd) == Unpeelable(dd, DOMAIN dd) # {}

\* add_bear_dependencies: one edge per declared dependency that is itself in
\* the input set; a bear without such an edge gets no entry
add_bear_dependencies(bs) ==
  LET blocked == {b \in bs : deps[b] \cap bs # {}}
  IN  [b \in blocked |-> deps[b] \cap bs]

\* resolve(bear): the bears whose last unresolved dependency was bear
resolve(dd, bear) ==
  {b \in DOMAIN dd : bear \in dd[b] /\ dd[b] \ {bear} = {}}

\* the dependency_dict after resolve(bear)
dict_after_resolve(dd, bear) ==
  [b \in (DOMAIN dd) \ resolve(dd, bear) |-> dd[b] \ {bear}]

(* -------------------------- schedule_bears ----------------------------- *)
\* a mutant of ready_bears: the hold-back test of line 44 is dropped
ready_bears_nocheck(bs, dd) == bs

\* a mutant of ready_bears: a bear is held back for any declared dependency,
\* whether or not the tracker still has an entry for it
ready_bears_declared(bs, dd) == {b \in bs : b \notin DOMAIN dd /\ deps[b] = {}}

\* the bears of bs that take the else branch of line 44
ready_bears(bs, dd) == {b \in bs : b \notin DOMAIN dd}

\* running_tasks after schedule_bears(bs, ..): every ready bear is bound to
\* the set of its futures (an empty set when it generates no task)
schedule_bears(bs, dd, rt) ==
  LET ready == ready_bears(bs, dd)
  IN  [b \in (DOMAIN rt) \cup ready |-> IF b \in ready THEN TasksOf(b) ELSE rt[b]]

\* the futures schedule_bears(bs, ..) hands to the executor
scheduled_tasks(bs, dd) == UNION {TasksOf(b) : b \in ready_bears(bs, dd)}

\* the submission counters after schedule_bears(bs, ..)
count_submitted(bs, dd, cnt) ==
  [b \in Bears |-> IF b \in ready_bears(bs, dd) THEN cnt[b] + 1 ELSE cnt[b]]

(* ------------------------------ Init ----------------------------------- *)
TypeOK ==
  /\ bears \subseteq Bears
  /\ pc \in {"start", "tracked", "loop", "done", "error"}
  /\ DOMAIN dependency_dict \subseteq Bears
  /\ DOMAIN running_tasks \subseteq Bears
  /\ stop_calls \in Nat

\* bears outside the session carry no information
Canonical(bs, d, n) ==
  \A b \in Bears \ bs : d[b] = {} /\ n[b] = 0

InitFree ==
  /\ bears \in SUBSET FreeBears
  /\ deps \in [Bears -> SUBSET FreeBears]
  /\ ntasks \in [Bears -> 0..MaxTasks]
  /\ Canonical(bears, deps, ntasks)
  /\ SumTasks(ntasks, Bears) <= MaxTotalTasks

InitDiamond ==
  /\ bears = Bears
  /\ deps = DiamondDeps
  /\ ntasks \in [Bears -> 0..MaxTasks]
  /\ SumTasks(ntasks, Bears) <= MaxTotalTasks + 1

Init ==
  /\ (InitFree \/ InitDiamond)
  /\ pc = "start"
  /\ dependency_dict = EmptyDict
  /\ running_tasks = EmptyDict
  /\ pending = {}
  /\ sink = <<>>
  /\ loop_exceptions = {}
  /\ outcome = [t \in {} |-> 0]
  /\ stop_calls = 0
  /\ submitted = [b \in Bears |-> 0]
  /\ resolved = [b \in Bears |-> 0]
  /\ loop_closed = FALSE
  /\ executor_shutdown = FALSE

(* ------------------------------ run ------------------------------------ *)
\* a mutant of AddBearDependencies: the error of the tracker is swallowed
\* and run() goes on to the initial submission
AddBearDependencies_ignore_error ==
  /\ pc = "start"
  /\ pc' = "tracked"
  /\ dependency_dict' = add_bear_dependencies(bears)
  /\ UNCHANGED <<config, running_tasks, pending, sink, loop_exceptions, outcome,
                 stop_calls, submitted, resolved, loop_closed, executor_shutdown>>

\* lines 161-167: the tracker is built; a cyclic graph raises out of run()
AddBearDependencies ==
  /\ pc = "start"
  /\ LET dd == add_bear_dependencies(bears)
     IN  IF HasCycle(dd)
         THEN /\ pc' = "error"
              /\ UNCHANGED dependency_dict
         ELSE /\ pc' = "tracked"
              /\ dependency_dict' = dd
  /\ UNCHANGED <<config, running_tasks, pending, sink, loop_exceptions, outcome,
                 stop_calls, submitted, resolved, loop_closed, executor_shutdown>>

\* lines 170-172: the initial schedule_bears, then run_forever() is entered
InitialSchedule ==
  /\ pc = "tracked"
  /\ running_tasks' = schedule_bears(bears, dependency_dict, EmptyDict)
  /\ pending' = scheduled_tasks(bears, dependency_dict)
  /\ submitted' = count_submitted(bears, dependency_dict, submitted)
  /\ pc' = "loop"
  /\ UNCHANGED <<config, dependency_dict, sink, loop_exceptions, outcome,
                 stop_calls, resolved, loop_closed, executor_shutdown>>

(* --------------------------- finish_task ------------------------------- *)
\* a mutant of bear_done: the bear counts as finished after any of its tasks
bear_done_always(rt, bear) == TRUE

\* line 100: the bear has no future left
bear_done(rt, bear) == rt[bear] = {}

\* a mutant of running_after_finish: the bears resolve() returns are not
\* registered before the finished bear is deleted
running_after_finish_noschedule(rt, dd, bear, task) ==
  LET rt1 == [rt EXCEPT ![bear] = @ \ {task}]
  IN  IF bear_done(rt1, bear)
      THEN [b \in (DOMAIN rt1) \ {bear} |-> rt1[b]]
      ELSE rt1

\* lines 99-107 on the dict: the future is removed, and when it was the
\* bear's last one the resolved bears are scheduled and the bear is deleted
running_after_finish(rt, dd, bear, task) ==
  LET rt1 == [rt EXCEPT ![bear] = @ \ {task}]
  IN  IF bear_done(rt1, bear)
      THEN LET rt2 == schedule_bears(resolve(dd, bear),
                                     dict_after_resolve(dd, bear), rt1)
           IN  [b \in (DOMAIN rt2) \ {bear} |-> rt2[b]]
      ELSE rt1

\* the callback of a future: the exception of task.result() leaves the
\* handler at line 95 and is handed to the loop's exception handler
finish_task(task, fault, res) ==
  LET bear == task[1] IN
  /\ pc = "loop"
  /\ task \in pending
  /\ pending' = (pending \ {task}) \cup
                  (IF ~fault /\ bear \in DOMAIN running_tasks
                      /\ bear_done([running_tasks EXCEPT ![bear] = @ \ {task}], bear)
                   THEN scheduled_tasks(resolve(dependency_dict, bear),
                                        dict_after_resolve(dependency_dict, bear))
                   ELSE {})
  /\ IF fault
     THEN /\ loop_exceptions' = loop_exceptions \cup {task}
          /\ UNCHANGED <<sink, outcome, running_tasks, dependency_dict, stop_calls,
                         submitted, resolved>>
     ELSE /\ sink' = sink \o ResultsOf(task, res)
          /\ outcome' = [t \in (DOMAIN outcome) \cup {task} |->
                           IF t = task THEN res ELSE outcome[t]]
          /\ bear \in DOMAIN running_tasks
          /\ LET rt1  == [running_tasks EXCEPT ![bear] = @ \ {task}]
                 done == bear_done(rt1, bear)
                 dd1  == dict_after_resolve(dependency_dict, bear)
                 rb   == resolve(dependency_dict, bear)
             IN  /\ running_tasks' =
                      running_after_finish(running_tasks, dependency_dict, bear, task)
                 /\ dependency_dict' = IF done THEN dd1 ELSE dependency_dict
                 /\ resolved' = IF done THEN [resolved EXCEPT ![bear] = @ + 1]
                                ELSE resolved
                 /\ submitted' = IF done THEN count_submitted(rb, dd1, submitted)
                                 ELSE submitted
                 /\ stop_calls' = IF DOMAIN running_tasks' = {}
                                  THEN stop_calls + 1 ELSE stop_calls
          /\ UNCHANGED loop_exceptions
  /\ UNCHANGED <<config, pc, loop_closed, executor_shutdown>>

\* the lengths tried for the sequence a task returns: empty, one result,
\* and the most results
ResultCounts == {0, 1, MaxResults}

FinishTask ==
  \E task \in pending, fault \in BOOLEAN, res \in ResultCounts :
     /\ fault => res = 0
     /\ finish_task(task, fault, res)

\* lines 172-174: stop() was called, run_forever() returns and the loop is closed
LoopExit ==
  /\ pc = "loop"
  /\ stop_calls > 0
  /\ pc' = "done"
  /\ loop_closed' = TRUE
  /\ UNCHANGED <<config, dependency_dict, running_tasks, pending, sink,
                 loop_exceptions, outcome, stop_calls, submitted, resolved,
                 executor_shutdown>>

Next == AddBearDependencies \/ InitialSchedule \/ FinishTask \/ LoopExit

Spec == Init /\ [][Next]_vars

(* ------------------------ shared state predicates ---------------------- *)
\* every future whose callback is still to run is held in running_tasks
\* under its bear, so lines 99-100 never raise a KeyError
PendingAreRegistered ==
  \A t \in pending : t[1] \in DOMAIN running_tasks /\ t \in running_tasks[t[1]]

\* the loop is running and no callback is left to run: nothing can happen
\* any more unless stop() has been called
Quiescent == pc = "loop" /\ pending = {}

\* the session was given the diamond D -> {B, C} -> A
IsDiamond == bears = Bears /\ deps = DiamondDeps

\* the session of the fault scenario: A and C independent, one task each
IsFaultScenario ==
  /\ bears = {"A", "C"}
  /\ deps["A"] = {} /\ deps["C"] = {}
  /\ ntasks["A"] = 1 /\ ntasks["C"] = 1

(* ------------------------------ claims --------------------------------- *)
\* C1: every bear of an acyclic session is submitted exactly once and
\* resolved exactly once: never more than once, and once no callback is left
\* to run each bear has been submitted once and resolved once.
C1_EveryBearSubmittedAndResolvedOnce ==
  /\ \A b \in Bears : submitted[b] <= 1 /\ resolved[b] <= 1
  /\ (Quiescent \/ pc = "done") =>
       \A b \in bears : submitted[b] = 1 /\ resolved[b] = 1

\* C2: a bear has been submitted only if every declared dependency of it
\* that is in the input set has been resolved.
C2_NoSubmitBeforeDependenciesResolved ==
  \A b \in bears :
    submitted[b] > 0 => \A d \in deps[b] \cap bears : resolved[d] > 0

\* a bear with a dependency in the input set has had its tasks submitted
C2_Witness ==
  \E b \in bears :
    /\ deps[b] \cap bears # {}
    /\ submitted[b] = 1
    /\ ntasks[b] > 0
    /\ TasksOf(b) \cap pending # {}

\* C3: a bear that generates no task is resolved in the very submission
\* that submits it, without waiting for a callback.
C3_ZeroTaskBearResolvedOnSubmit ==
  \A b \in bears : (submitted[b] > 0 /\ ntasks[b] = 0) => resolved[b] > 0

\* C4: while the loop runs, stop has been signalled if and only if
\* running_tasks is empty.
C4_StopIffRunningTasksEmpty ==
  pc = "loop" => ((stop_calls > 0) <=> (DOMAIN running_tasks = {}))

\* C5: termination is signalled exactly once: never twice, and once no
\* callback is left to run it has been signalled.
C5_StopSignalledExactlyOnce ==
  /\ stop_calls <= 1
  /\ Quiescent => stop_calls = 1

\* C6: in the diamond D is submitted at most once, and it has been
\* submitted exactly when both B and C have been resolved.
C6_DiamondSubmitsDOnce ==
  IsDiamond =>
    /\ submitted["D"] <= 1
    /\ (submitted["D"] = 1) <=> (resolved["B"] > 0 /\ resolved["C"] > 0)

\* the diamond in which every bear has a task, B and C have been resolved
\* and D has been submitted with its task in flight
C6_Witness ==
  /\ IsDiamond
  /\ \A b \in Bears : ntasks[b] >= 1
  /\ submitted["D"] = 1
  /\ resolved["B"] = 1 /\ resolved["C"] = 1
  /\ TasksOf("D") \subseteq pending

\* C7: in the fault scenario, once both callbacks have run with A's task
\* faulted and C's task returned, C's results are in the sink, A's fault is
\* on the error path and not in the sink, and termination was signalled.
C7_FaultScenarioTerminates ==
  (IsFaultScenario /\ Quiescent
     /\ <<"A", 1>> \in loop_exceptions /\ <<"C", 1>> \in DOMAIN outcome) =>
    /\ \A k \in 1..outcome[<<"C", 1>>] :
         \E i \in 1..Len(sink) : sink[i] = <<"C", 1, k>>
    /\ \A i \in 1..Len(sink) : sink[i][1] # "A"
    /\ stop_calls = 1

\* C8: a faulted task counts as completed: its handle is no longer in
\* running_tasks[bear].
C8_FaultedTaskRemoved ==
  \A t \in loop_exceptions :
    t[1] \in DOMAIN running_tasks => t \notin running_tasks[t[1]]

\* C9: when the initial submission started no work, the control loop is
\* not left running: stop has been signalled.
C9_NoWorkTerminates ==
  (pc = "loop" /\ \A b \in Bears : submitted[b] = 0) => stop_calls > 0

\* C10: whenever run() has been left, normally or through an error, the
\* executor has been shut down.
C10_ExecutorReleasedOnExit ==
  pc \in {"done", "error"} => executor_shutdown

\* the index of result r in the sink (0 when it is not there)
SinkIndex(r) ==
  IF \E i \in 1..Len(sink) : sink[i] = r
  THEN CHOOSE i \in 1..Len(sink) : sink[i] = r
  ELSE 0

\* the tasks of bear b whose callback has run, with or without a fault
CompletedTasks(b) == TasksOf(b) \cap ((DOMAIN outcome) \cup loop_exceptions)

\* C11: the results r1..rn of a task that returned are all in the sink, in
\* the order the task produced them.
C11_ResultsInProducedOrder ==
  \A t \in DOMAIN outcome :
    /\ \A k \in 1..outcome[t] : SinkIndex(<<t[1], t[2], k>>) > 0
    /\ \A k \in 1..outcome[t], m \in 1..outcome[t] :
         k < m => SinkIndex(<<t[1], t[2], k>>) < SinkIndex(<<t[1], t[2], m>>)

\* two tasks of different bears have each delivered two results
C11_Witness ==
  \E t \in DOMAIN outcome, u \in DOMAIN outcome :
    /\ t[1] # u[1]
    /\ outcome[t] = 2 /\ outcome[u] = 2
    /\ Len(sink) = 4

\* C12: when B depends on A, B has been submitted only if A was submitted
\* and all tasks of A have completed; every result of A precedes every result
\* of B in the sink; and stop is signalled only when all tasks of B completed.
C12_DependentRunsAfterDependency ==
  \A a \in bears, b \in bears :
    a \in deps[b] =>
      /\ submitted[b] > 0 =>
           (submitted[a] > 0 /\ TasksOf(a) \subseteq DOMAIN outcome)
      /\ \A i \in 1..Len(sink), j \in 1..Len(sink) :
           (sink[i][1] = b /\ sink[j][1] = a) => j < i
      /\ stop_calls > 0 =>
           (submitted[b] > 0 /\ TasksOf(b) \subseteq DOMAIN outcome)

\* B depends on A, both delivered results and stop was signalled
C12_Witness ==
  \E a \in bears, b \in bears :
    /\ a \in deps[b]
    /\ stop_calls = 1
    /\ \E i \in 1..Len(sink), j \in 1..Len(sink) : sink[i][1] = a /\ sink[j][1] = b
    /\ ntasks[a] = 2

\* C13: once the initial submission has run, every bear none of whose
\* declared dependencies is in the input set has been submitted.
C13_ExternalDependenciesAreReady ==
  pc \in {"loop", "done"} =>
    \A b \in bears : deps[b] \cap bears = {} => submitted[b] = 1

\* right after the initial submission a bear that declares only
\* dependencies outside the input set has its tasks in flight
C13_Witness ==
  /\ pc = "loop"
  /\ DOMAIN outcome = {} /\ loop_exceptions = {}
  /\ \E b \in bears :
       /\ deps[b] # {} /\ deps[b] \cap bears = {}
       /\ submitted[b] = 1
       /\ ntasks[b] > 0 /\ TasksOf(b) \subseteq pending

\* the dependency graph of the input bears contains a cycle
IsCyclic == HasCycle(add_bear_dependencies(bears))

\* C14: when the graph of the input bears has a cycle, run() fails from
\* the tracker's construction and no task is ever submitted.
C14_CycleFailsBeforeSubmission ==
  IsCyclic =>
    /\ pc \in {"start", "error"}
    /\ pending = {} /\ DOMAIN running_tasks = {}
    /\ \A b \in Bears : submitted[b] = 0

\* the session failed although a bear outside the cycle was ready with a task
C14_Witness ==
  /\ pc = "error"
  /\ \E b \in bears : deps[b] \cap bears = {} /\ ntasks[b] > 0

\* C15: while a handle of a bear remains in running_tasks[bear], or a task
\* of the bear is still outstanding, the bear has not been resolved and none
\* of its dependents has been submitted.
C15_ResolvedOnlyAfterLastTask ==
  \A b \in bears :
    (\/ (b \in DOMAIN running_tasks /\ running_tasks[b] # {})
     \/ (submitted[b] > 0 /\ CompletedTasks(b) # TasksOf(b))) =>
      /\ resolved[b] = 0
      /\ \A d \in bears : b \in deps[d] => submitted[d] = 0

\* a bear with a dependent has completed one of its two tasks, the other
\* is still in running_tasks
C15_Witness ==
  \E b \in DOMAIN running_tasks :
    /\ ntasks[b] = 2
    /\ Cardinality(running_tasks[b]) = 1
    /\ Cardinality(TasksOf(b) \cap DOMAIN outcome) = 1
    /\ \E d \in bears : b \in deps[d] /\ ntasks[d] > 0

\* C16: after every handler each bear in running_tasks has a non-empty
\* handle set, a handle set only shrinks, and an entry is created only for a
\* bear that was never submitted before.
C16_RunningSetInvariant ==
  [][ /\ \A b \in DOMAIN running_tasks' : running_tasks'[b] # {}
      /\ \A b \in (DOMAIN running_tasks) \cap (DOMAIN running_tasks') :
           running_tasks'[b] \subseteq running_tasks[b]
      /\ \A b \in (DOMAIN running_tasks') \ (DOMAIN running_tasks) :
           submitted[b] = 0 ]_vars

\* C17: the initial schedule_bears leaves every bear that is blocked in the
\* dependency graph alone: no entry in running_tasks, no task handed to the
\* executor, no submission counted, and the dependency graph unchanged.
C17_BlockedBearUntouched ==
  [][ pc = "tracked" =>
        /\ dependency_dict' = dependency_dict
        /\ \A b \in bears \cap DOMAIN dependency_dict :
             /\ b \notin DOMAIN running_tasks'
             /\ TasksOf(b) \cap pending' = {}
             /\ submitted'[b] = submitted[b] ]_vars

\* right after the initial submission a blocked bear with tasks is still in
\* the dependency graph while another bear's tasks are in flight
C17_Witness ==
  /\ pc = "loop"
  /\ DOMAIN outcome = {} /\ loop_exceptions = {}
  /\ pending # {}
  /\ \E b \in bears \cap DOMAIN dependency_dict :
       ntasks[b] > 0 /\ b \notin DOMAIN running_tasks

\* C18: when stop has been signalled no task is in flight, no bear is left
\* in the dependency graph and every bear has been submitted and resolved.
C18_NoWorkLeftAtStop ==
  stop_calls > 0 =>
    /\ pending = {}
    /\ DOMAIN dependency_dict = {}
    /\ \A b \in bears : submitted[b] = 1 /\ resolved[b] = 1

\* stop was signalled in a session of three bears with a dependency chain
C18_Witness ==
  /\ stop_calls = 1
  /\ Cardinality(bears) >= 3
  /\ \E a \in bears, b \in bears, c \in bears : a \in deps[b] /\ b \in deps[c]

\* C19: every result of a task that returned is in the sink exactly once,
\* and every value in the sink is a result of such a task of an input bear.
C19_ResultsDeliveredExactlyOnce ==
  /\ \A t \in DOMAIN outcome :
       \A k \in 1..outcome[t] :
         Cardinality({i \in 1..Len(sink) : sink[i] = <<t[1], t[2], k>>}) = 1
  /\ \A i \in 1..Len(sink) :
       /\ sink[i][1] \in bears
       /\ <<sink[i][1], sink[i][2]>> \in TasksOf(sink[i][1]) \cap DOMAIN outcome
       /\ sink[i][3] \in 1..outcome[<<sink[i][1], sink[i][2]>>]

\* two tasks have returned, one of them without results, and another task
\* has faulted
C19_Witness ==
  /\ Cardinality(DOMAIN outcome) >= 2
  /\ \E t \in DOMAIN outcome : outcome[t] = 0
  /\ \E t \in DOMAIN outcome : outcome[t] = 2
  /\ loop_exceptions # {}

\* C20: in a session in which every bear generates a task and no task has
\* faulted, once every submitted task has completed stop has been signalled
\* and every bear has been resolved.
C20_FaultFreeSessionTerminates ==
  (/\ \A b \in bears : ntasks[b] >= 1
   /\ loop_exceptions = {}
   /\ Quiescent) =>
    /\ stop_calls = 1
    /\ \A b \in bears : resolved[b] = 1

====
